---- MODULE Spec2Model ----
(***************************************************************************)
(* github-user-activity-cli: main, fetchEvents, parseUnix, formatEvent and *)
(* titleCase of main.go as a state machine.                                *)
(*                                                                         *)
(* Conventions.  A Go string the program only compares or concatenates     *)
(* (event type, repo name, literal text, finished lines) is a TLA+ string. *)
(* A Go string the program inspects byte by byte (a payload string, the    *)
(* reset header, the response body, a username) is a sequence of bytes,    *)
(* each byte a one-character string for ASCII and "<XX>" for the byte      *)
(* 0xXX >= 0x80; Text joins such a sequence into a TLA+ string.  The three *)
(* non-ASCII characters of the program's literals are written LDQUO, RDQUO *)
(* and RARR.                                                               *)
(***************************************************************************)
EXTENDS Integers, Sequences, FiniteSets, TLC

VARIABLES
    argv,       \* os.Args[1:]: the command line, one token per argument
    env,        \* what the network answers to the one request
    pc,         \* position in main
    eventType,  \* *eventType (flag --type)
    limit,      \* *limit (flag --n)
    username,   \* flag.Arg(0)
    events,     \* the decoded []Event
    idx,        \* number of events the range loop has taken
    line,       \* line of the current iteration
    ok,         \* ok of the current iteration
    count,      \* count
    stdout,     \* lines written to os.Stdout
    stderr,     \* lines written to os.Stderr / flag output
    exitCode,   \* process exit code, -1 while running
    requests    \* number of calls of http.DefaultClient.Do

vars == <<argv, env, pc, eventType, limit, username, events, idx, line, ok,
          count, stdout, stderr, exitCode, requests>>

(***************************************************************************)
(* Bounds of the model.                                                    *)
(***************************************************************************)
MaxEvents == 3

(***************************************************************************)
(* Bytes and text.                                                         *)
(***************************************************************************)
LowerLetters == <<"a","b","c","d","e","f","g","h","i","j","k","l","m",
                  "n","o","p","q","r","s","t","u","v","w","x","y","z">>
UpperLetters == <<"A","B","C","D","E","F","G","H","I","J","K","L","M",
                  "N","O","P","Q","R","S","T","U","V","W","X","Y","Z">>
DigitStr == <<"0","1","2","3","4","5","6","7","8","9">>

\* Continuation bytes (0x80..0xBF) and lead bytes the bounded inputs hold.
ContBytes == {"<A9>", "<89>", "<BF>", "<BD>"}
Lead2Bytes == {"<C3>"}
Lead3Bytes == {"<EF>"}
HighBytes == ContBytes \cup Lead2Bytes \cup Lead3Bytes

\* U+FFFD as UTF-8: what strings.Map writes for an invalid byte.
RuneErrorBytes == <<"<EF>", "<BF>", "<BD>">>

IndexIn(tbl, c) == CHOOSE i \in 1..Len(tbl) : tbl[i] = c
IsIn(tbl, c) == \E i \in 1..Len(tbl) : tbl[i] = c

RECURSIVE Text(_)
Text(bs) ==
    IF bs = <<>> THEN ""
    ELSE IF Len(bs) = 1 THEN bs[1]
    ELSE LET h == Len(bs) \div 2
         IN Text(SubSeq(bs, 1, h)) \o Text(SubSeq(bs, h + 1, Len(bs)))

Drop(s, n) == SubSeq(s, n + 1, Len(s))

\* unicode.ToUpper / unicode.ToLower on one ASCII byte.
UpperByte(c) == IF IsIn(LowerLetters, c) THEN UpperLetters[IndexIn(LowerLetters, c)] ELSE c
LowerByte(c) == IF IsIn(UpperLetters, c) THEN LowerLetters[IndexIn(UpperLetters, c)] ELSE c

\* unicode.ToUpper / unicode.ToLower on a two-byte rune: e-acute is C3 A9,
\* E-acute is C3 89.
UpperRune2(r) == IF r = <<"<C3>", "<A9>">> THEN <<"<C3>", "<89>">> ELSE r
LowerRune2(r) == IF r = <<"<C3>", "<89>">> THEN <<"<C3>", "<A9>">> ELSE r

\* utf8.DecodeRuneInString: the width of the rune s starts with, 0 when the
\* first byte does not start a valid encoding (Go then reads RuneError, 1).
RuneWidth(s) ==
    IF s[1] \notin HighBytes THEN 1
    ELSE IF s[1] \in Lead2Bytes /\ Len(s) >= 2 /\ s[2] \in ContBytes THEN 2
    ELSE IF s[1] \in Lead3Bytes /\ Len(s) >= 3 /\ s[2] \in ContBytes
            /\ s[3] \in ContBytes THEN 3
    ELSE 0

\* strings.Map(unicode.ToUpper | unicode.ToLower, s): rune by rune, an
\* invalid byte comes out as U+FFFD.
RECURSIVE MapCase(_, _)
MapCase(up, s) ==
    IF s = <<>> THEN <<>>
    ELSE LET w == RuneWidth(s) IN
         CASE w = 0 -> RuneErrorBytes \o MapCase(up, Tail(s))
           [] w = 1 -> <<IF up THEN UpperByte(s[1]) ELSE LowerByte(s[1])>>
                       \o MapCase(up, Tail(s))
           [] w = 2 -> (IF up THEN UpperRune2(SubSeq(s, 1, 2))
                              ELSE LowerRune2(SubSeq(s, 1, 2)))
                       \o MapCase(up, Drop(s, 2))
           [] OTHER -> SubSeq(s, 1, 3) \o MapCase(up, Drop(s, 3))

IsASCII(s) == \A i \in 1..Len(s) : s[i] \notin HighBytes

\* strings.ToUpper / strings.ToLower: an ASCII fast path, else strings.Map.
ToUpper(s) == IF IsASCII(s) THEN [i \in 1..Len(s) |-> UpperByte(s[i])] ELSE MapCase(TRUE, s)
ToLower(s) == IF IsASCII(s) THEN [i \in 1..Len(s) |-> LowerByte(s[i])] ELSE MapCase(FALSE, s)

\* titleCase: s[:1] and s[1:] slice BYTES.
titleCase(s) ==
    IF s = <<>> THEN s ELSE ToUpper(SubSeq(s, 1, 1)) \o ToLower(Drop(s, 1))

\* fmt's %d of a Go int.
RECURSIVE Itoa(_)
Itoa(n) ==
    IF n < 0 THEN "-" \o Itoa(-n)
    ELSE IF n < 10 THEN DigitStr[n + 1]
    ELSE Itoa(n \div 10) \o DigitStr[(n % 10) + 1]

(***************************************************************************)
(* JSON values and encoding/json's decoding of a payload into a struct.    *)
(***************************************************************************)
JAbsent == [k |-> "absent"]                 \* no bytes / key not present
JNull == [k |-> "null"]
JNum(n) == [k |-> "num", int |-> TRUE, n |-> n]
JFrac == [k |-> "num", int |-> FALSE, n |-> 0]      \* such as 3.5
JStr(bs) == [k |-> "str", s |-> bs]
JArr == [k |-> "arr"]                               \* such as []
JObj(fields) == [k |-> "obj", o |-> fields]

Field(v, key) == IF key \in DOMAIN v.o THEN v.o[key] ELSE JAbsent

\* A JSON value into a Go int field: null and an absent key leave the zero
\* value, an integer literal is stored, anything else is a type error.
IntInto(v) ==
    CASE v.k \in {"absent", "null"} -> [err |-> FALSE, val |-> 0]
      [] v.k = "num" /\ v.int -> [err |-> FALSE, val |-> v.n]
      [] OTHER -> [err |-> TRUE, val |-> 0]

\* A JSON value into a Go string field.
StrInto(v) ==
    CASE v.k \in {"absent", "null"} -> [err |-> FALSE, val |-> <<>>]
      [] v.k = "str" -> [err |-> FALSE, val |-> v.s]
      [] OTHER -> [err |-> TRUE, val |-> <<>>]

\* A JSON value into struct{Number int; Title string} (Issue, PullRequest).
NumTitleInto(v) ==
    CASE v.k \in {"absent", "null"} ->
            [err |-> FALSE, Number |-> 0, Title |-> <<>>]
      [] v.k = "obj" ->
            LET n == IntInto(Field(v, "number"))
                t == StrInto(Field(v, "title"))
            IN [err |-> n.err \/ t.err, Number |-> n.val, Title |-> t.val]
      [] OTHER -> [err |-> TRUE, Number |-> 0, Title |-> <<>>]

\* A JSON value into struct{FullName string} (Forkee).
ForkeeInto(v) ==
    CASE v.k \in {"absent", "null"} -> [err |-> FALSE, FullName |-> <<>>]
      [] v.k = "obj" ->
            LET f == StrInto(Field(v, "full_name"))
            IN [err |-> f.err, FullName |-> f.val]
      [] OTHER -> [err |-> TRUE, FullName |-> <<>>]

\* json.Unmarshal(data, &struct): no bytes is a syntax error, null is a
\* no-op, an object is decoded field by field, any other value is a type
\* error.  shape maps an object to the decoded struct with its err flag.
TopLevel(raw, zero, shape) ==
    CASE raw.k = "absent" -> [zero EXCEPT !.err = TRUE]
      [] raw.k = "null" -> zero
      [] raw.k = "obj" -> shape
      [] OTHER -> [zero EXCEPT !.err = TRUE]

UnmarshalPush(raw) ==
    TopLevel(raw, [err |-> FALSE, Size |-> 0],
             LET s == IntInto(Field(raw, "size"))
             IN [err |-> s.err, Size |-> s.val])

UnmarshalIssues(raw) ==
    TopLevel(raw, [err |-> FALSE, Action |-> <<>>, Number |-> 0, Title |-> <<>>],
             LET a == StrInto(Field(raw, "action"))
                 i == NumTitleInto(Field(raw, "issue"))
             IN [err |-> a.err \/ i.err, Action |-> a.val,
                 Number |-> i.Number, Title |-> i.Title])

UnmarshalPR(raw) ==
    TopLevel(raw, [err |-> FALSE, Action |-> <<>>, Number |-> 0, Title |-> <<>>],
             LET a == StrInto(Field(raw, "action"))
                 i == NumTitleInto(Field(raw, "pull_request"))
             IN [err |-> a.err \/ i.err, Action |-> a.val,
                 Number |-> i.Number, Title |-> i.Title])

UnmarshalWatch(raw) ==
    TopLevel(raw, [err |-> FALSE, Action |-> <<>>],
             LET a == StrInto(Field(raw, "action"))
             IN [err |-> a.err, Action |-> a.val])

UnmarshalFork(raw) ==
    TopLevel(raw, [err |-> FALSE, FullName |-> <<>>],
             LET f == ForkeeInto(Field(raw, "forkee"))
             IN [err |-> f.err, FullName |-> f.FullName])

(***************************************************************************)
(* formatEvent.                                                            *)
(***************************************************************************)
LDQUO == "<ldquo>"      \* U+201C in the format strings of lines 191 and 199
RDQUO == "<rdquo>"      \* U+201D
RARR == "<rarr>"        \* U+2192 in the format string of line 220

Skip == [line |-> "", ok |-> FALSE]
Shown(l) == [line |-> l, ok |-> TRUE]

started == <<"s","t","a","r","t","e","d">>

formatPush(ev) ==
    LET p == UnmarshalPush(ev.Payload) IN
    IF p.err THEN Skip
    ELSE Shown("Pushed " \o Itoa(p.Size) \o " commit(s) to " \o ev.Repo.Name)

formatIssues(ev) ==
    LET p == UnmarshalIssues(ev.Payload) IN
    IF p.err THEN Skip
    ELSE LET action == ToLower(p.Action) IN
         Shown(Text(titleCase(action)) \o " an issue #" \o Itoa(p.Number)
               \o " " \o LDQUO \o Text(p.Title) \o RDQUO \o " in " \o ev.Repo.Name)

formatPR(ev) ==
    LET p == UnmarshalPR(ev.Payload) IN
    IF p.err THEN Skip
    ELSE LET action == ToLower(p.Action) IN
         Shown(Text(titleCase(action)) \o " a pull request #" \o Itoa(p.Number)
               \o " " \o LDQUO \o Text(p.Title) \o RDQUO \o " in " \o ev.Repo.Name)

\* A bug the watch case could have: the decoding error is not looked at.
formatWatchIgnoresErr(ev) ==
    LET p == UnmarshalWatch(ev.Payload) IN
    IF ToLower(p.Action) = started THEN Shown("Starred " \o ev.Repo.Name)
    ELSE Shown("Watch event on " \o ev.Repo.Name)

formatWatch(ev) ==
    LET p == UnmarshalWatch(ev.Payload) IN
    IF p.err THEN Skip
    ELSE IF ToLower(p.Action) = started THEN Shown("Starred " \o ev.Repo.Name)
    ELSE Shown("Watch event on " \o ev.Repo.Name)

formatFork(ev) ==
    LET p == UnmarshalFork(ev.Payload) IN
    IF p.err THEN Skip
    ELSE LET target == IF p.FullName # <<>> THEN Text(p.FullName) ELSE ev.Repo.Name
         IN Shown("Forked " \o ev.Repo.Name \o " " \o RARR \o " " \o target)

formatEvent(ev) ==
    LET repo == ev.Repo.Name IN
    CASE ev.Type = "PushEvent" -> formatPush(ev)
      [] ev.Type = "IssuesEvent" -> formatIssues(ev)
      [] ev.Type = "PullRequestEvent" -> formatPR(ev)
      [] ev.Type = "WatchEvent" -> formatWatch(ev)
      [] ev.Type = "ForkEvent" -> formatFork(ev)
      [] ev.Type = "CreateEvent" -> Shown("Created something in " \o repo)
      [] ev.Type = "DeleteEvent" -> Shown("Deleted something in " \o repo)
      [] ev.Type = "ReleaseEvent" -> Shown("Published or edited a release in " \o repo)
      [] ev.Type = "PullRequestReviewCommentEvent" ->
            Shown("Commented on a PR review in " \o repo)
      [] ev.Type = "IssueCommentEvent" -> Shown("Commented on an issue in " \o repo)
      [] OTHER -> Skip

(***************************************************************************)
(* 64-bit integers.  TLC's integers are 32 bits wide, so an int64 is a     *)
(* sign and a magnitude in decimal digits, most significant first, without *)
(* leading zeros (zero has no digits).                                     *)
(***************************************************************************)
Rev(s) == [i \in 1..Len(s) |-> s[Len(s) + 1 - i]]

RECURSIVE StripZeros(_)
StripZeros(ds) == IF ds # <<>> /\ Head(ds) = 0 THEN StripZeros(Tail(ds)) ELSE ds

\* -1, 0, 1 as a < b, a = b, a > b, for magnitudes.
RECURSIVE CmpSameLen(_, _)
CmpSameLen(a, b) ==
    IF a = <<>> THEN 0
    ELSE IF Head(a) < Head(b) THEN -1
    ELSE IF Head(a) > Head(b) THEN 1
    ELSE CmpSameLen(Tail(a), Tail(b))

CmpMag(a, b) ==
    IF Len(a) < Len(b) THEN -1
    ELSE IF Len(a) > Len(b) THEN 1
    ELSE CmpSameLen(a, b)

RestOf(s) == IF s = <<>> THEN <<>> ELSE Tail(s)
FirstOf(s) == IF s = <<>> THEN 0 ELSE Head(s)

\* Least significant digit first.
RECURSIVE AddLE(_, _, _)
AddLE(a, b, carry) ==
    IF a = <<>> /\ b = <<>> THEN (IF carry = 0 THEN <<>> ELSE <<carry>>)
    ELSE LET x == FirstOf(a) + FirstOf(b) + carry
         IN <<x % 10>> \o AddLE(RestOf(a), RestOf(b), x \div 10)

\* a - b for a >= b, least significant digit first.
RECURSIVE SubLE(_, _, _)
SubLE(a, b, borrow) ==
    IF a = <<>> THEN <<>>
    ELSE LET x == FirstOf(a) - FirstOf(b) - borrow
         IN <<IF x < 0 THEN x + 10 ELSE x>>
            \o SubLE(RestOf(a), RestOf(b), IF x < 0 THEN 1 ELSE 0)

AddMag(a, b) == Rev(AddLE(Rev(a), Rev(b), 0))
SubMag(a, b) == StripZeros(Rev(SubLE(Rev(a), Rev(b), 0)))

I64(neg, mag) == [neg |-> neg /\ mag # <<>>, mag |-> mag]
Zero64 == I64(FALSE, <<>>)

\* x + y over the integers.
AddInt(x, y) ==
    IF x.neg = y.neg THEN I64(x.neg, AddMag(x.mag, y.mag))
    ELSE LET c == CmpMag(x.mag, y.mag) IN
         IF c = 0 THEN Zero64
         ELSE IF c > 0 THEN I64(x.neg, SubMag(x.mag, y.mag))
         ELSE I64(y.neg, SubMag(y.mag, x.mag))

MaxInt64Mag == <<9, 2, 2, 3, 3, 7, 2, 0, 3, 6, 8, 5, 4, 7, 7, 5, 8, 0, 7>>      \* 1<<63 - 1
MinInt64Mag == <<9, 2, 2, 3, 3, 7, 2, 0, 3, 6, 8, 5, 4, 7, 7, 5, 8, 0, 8>>      \* 1<<63
Two64Mag == <<1, 8, 4, 4, 6, 7, 4, 4, 0, 7, 3, 7, 0, 9, 5, 5, 1, 6, 1, 6>>        \* 1<<64

\* The int64 a sum wraps to.
Wrap64(v) ==
    IF ~v.neg /\ CmpMag(v.mag, MaxInt64Mag) > 0 THEN AddInt(v, I64(TRUE, Two64Mag))
    ELSE IF v.neg /\ CmpMag(v.mag, MinInt64Mag) > 0 THEN AddInt(v, I64(FALSE, Two64Mag))
    ELSE v

\* The decimal text of an int64.
Text64(v) ==
    (IF v.neg THEN "-" ELSE "")
    \o (IF v.mag = <<>> THEN "0" ELSE Text([i \in 1..Len(v.mag) |-> DigitStr[v.mag[i] + 1]]))

\* strconv.ParseInt(s, 10, 64): an optional sign, then decimal digits only;
\* a syntax error (value 0) or a value outside int64 (the nearest int64) is
\* an error.
ParseInt(s) ==
    IF s = <<>> THEN [err |-> TRUE, val |-> Zero64]
    ELSE LET neg == s[1] = "-"
             body == IF s[1] \in {"+", "-"} THEN Tail(s) ELSE s
         IN IF body = <<>> \/ \E i \in 1..Len(body) : ~IsIn(DigitStr, body[i])
            THEN [err |-> TRUE, val |-> Zero64]
            ELSE LET un == StripZeros([i \in 1..Len(body) |-> IndexIn(DigitStr, body[i]) - 1])
                 IN IF ~neg /\ CmpMag(un, MaxInt64Mag) > 0
                    THEN [err |-> TRUE, val |-> I64(FALSE, MaxInt64Mag)]
                    ELSE IF neg /\ CmpMag(un, MinInt64Mag) > 0
                    THEN [err |-> TRUE, val |-> I64(TRUE, MinInt64Mag)]
                    ELSE [err |-> FALSE, val |-> I64(neg, un)]

(***************************************************************************)
(* time.Time with whole seconds: ext is the seconds since January 1, year  *)
(* 1, which is what Time.IsZero reads.                                     *)
(***************************************************************************)
unixToInternal == I64(FALSE, <<6, 2, 1, 3, 5, 5, 9, 6, 8, 0, 0>>)       \* seconds from year 1 to 1970

ZeroTime == [ext |-> Zero64]                        \* time.Time{}
Unix(sec) == [ext |-> Wrap64(AddInt(sec, unixToInternal))]   \* time.Unix(sec, 0)
IsZero(t) == t.ext = Zero64

\* ts.Local().Format(time.RFC1123): the text depends on the local zone; it
\* is written as a tag holding the instant.
FormatRFC1123(t) == "<RFC1123 " \o Text64(t.ext) \o ">"

parseUnix(s) ==
    LET r == ParseInt(s) IN
    IF r.err THEN [ts |-> ZeroTime, err |-> TRUE]
    ELSE [ts |-> Unix(r.val), err |-> FALSE]

(***************************************************************************)
(* fetchEvents.                                                            *)
(*                                                                         *)
(* env is the answer of the network: env.transport = "fail" when Do        *)
(* returns an error, else a response with StatusCode, Status, the two      *)
(* rate-limit headers as Header.Get returns them ("" / <<>> when absent)   *)
(* and a body.  A body is given in the form its reader consumes: the bytes *)
(* (k = "text") for io.ReadAll, the JSON document for json.Decoder.        *)
(***************************************************************************)
StatusNotFound == 404
StatusForbidden == 403
BodyLimit == 512

Spaces == {" ", "\t", "\n", "\r"}

RECURSIVE TrimLeft(_)
TrimLeft(s) == IF s # <<>> /\ Head(s) \in Spaces THEN TrimLeft(Tail(s)) ELSE s

RECURSIVE TrimRight(_)
TrimRight(s) ==
    IF s # <<>> /\ s[Len(s)] \in Spaces THEN TrimRight(SubSeq(s, 1, Len(s) - 1)) ELSE s

\* strings.TrimSpace
TrimSpace(s) == TrimRight(TrimLeft(s))

\* io.ReadAll(io.LimitReader(r, n))
ReadLimited(bytes, n) == SubSeq(bytes, 1, IF Len(bytes) < n THEN Len(bytes) ELSE n)

HexDigits == {"0","1","2","3","4","5","6","7","8","9",
              "a","b","c","d","e","f","A","B","C","D","E","F"}
CtlBytes == {"\t", "\n", "\r"}

\* http.NewRequest fails when url.Parse rejects the URL the username was
\* put into: a control byte, or a "%" that does not start an escape.
NewRequestFails(user) ==
    \E i \in 1..Len(user) :
        \/ user[i] \in CtlBytes
        \/ /\ user[i] = "%"
           /\ ~(i + 2 <= Len(user) /\ user[i + 1] \in HexDigits /\ user[i + 2] \in HexDigits)

RateLimitMsg == "rate limit exceeded; set GITHUB_TOKEN to increase limits"

\* dec.Decode(&events): the error text, "" when the document decodes.
DecodeError(doc) ==
    CASE doc.k = "array" -> ""
      [] doc.k = "null" -> ""
      [] doc.k = "eof" -> "EOF"
      [] doc.k = "syntax" -> "invalid character '<' looking for beginning of value"
      [] doc.k = "object" -> "json: cannot unmarshal object into Go value of type []main.Event"
      [] OTHER -> "json: cannot unmarshal number into Go struct field Event.type of type string"

Failure(msg, sent) == [events |-> <<>>, failed |-> TRUE, msg |-> msg, sent |-> sent]
Fetched(evs) == [events |-> evs, failed |-> FALSE, msg |-> "", sent |-> 1]

\* A bug the rate-limit branch could have: the status code is not looked at.
RateLimitedAnyStatus(resp) ==
    IF resp.remaining = "0"
    THEN LET reset == resp.reset
             ts == parseUnix(reset).ts
         IN IF reset # <<>> /\ ~IsZero(ts)
            THEN RateLimitMsg \o " (resets at " \o FormatRFC1123(ts) \o ")"
            ELSE RateLimitMsg
    ELSE ""

\* Lines 140-152: the rate-limit branch; "" when it does not return.
RateLimited(resp) ==
    IF resp.StatusCode = StatusForbidden /\ resp.remaining = "0"
    THEN LET reset == resp.reset
             ts == parseUnix(reset).ts
         IN IF reset # <<>> /\ ~IsZero(ts)
            THEN RateLimitMsg \o " (resets at " \o FormatRFC1123(ts) \o ")"
            ELSE RateLimitMsg
    ELSE ""

\* fetchEvents(username) when the network answers e.  sent counts the calls
\* of http.DefaultClient.Do.
fetchEvents(user, e) ==
    IF NewRequestFails(user) THEN Failure("parse <url>: invalid URL", 0)
    ELSE IF e.transport = "fail" THEN Failure("request failed: " \o e.cause, 1)
    ELSE IF e.StatusCode = StatusNotFound THEN Failure("user not found", 1)
    ELSE IF RateLimited(e) # "" THEN Failure(RateLimited(e), 1)
    ELSE IF e.StatusCode < 200 \/ e.StatusCode >= 300
         THEN Failure("github api error: " \o e.Status \o ": "
                      \o Text(TrimSpace(ReadLimited(e.body.bytes, BodyLimit))), 1)
    ELSE IF DecodeError(e.body) # "" THEN Failure("decode failed: " \o DecodeError(e.body), 1)
    ELSE Fetched(IF e.body.k = "array" THEN e.body.events ELSE <<>>)

(***************************************************************************)
(* The command line and package flag.                                      *)
(*                                                                         *)
(* A token of argv is a flag given as --name=value (k = "flag") or an      *)
(* argument that does not start with "-" (k = "arg").                      *)
(***************************************************************************)
DefaultLimit == 30
MinLimit == 1
MaxLimit == 100
ExitUsage == 2
ExitFailure == 1

TypeFlag(v) == [k |-> "flag", name |-> "type", str |-> v]
NFlag(v) == [k |-> "flag", name |-> "n", int |-> v]
EventFlag(v) == [k |-> "flag", name |-> "event", str |-> v]
HelpFlag == [k |-> "flag", name |-> "help"]
Arg(user) == [k |-> "arg", user |-> user]

\* The flags main defines (lines 61-62).
DefinedFlags == {"type", "n"}

\* flag.Parse: flags are read up to the first non-flag argument; an
\* undefined flag ends the parse ("help" asks for the usage text).
RECURSIVE ParseFlags(_, _)
ParseFlags(args, st) ==
    IF args = <<>> \/ Head(args).k = "arg"
    THEN [result |-> "ok", name |-> "", eventType |-> st.eventType,
          limit |-> st.limit, rest |-> args]
    ELSE LET f == Head(args) IN
         IF f.name \notin DefinedFlags
         THEN [result |-> IF f.name = "help" THEN "help" ELSE "undefined",
               name |-> f.name, eventType |-> st.eventType, limit |-> st.limit,
               rest |-> Tail(args)]
         ELSE ParseFlags(Tail(args),
                         IF f.name = "type" THEN [st EXCEPT !.eventType = f.str]
                         ELSE [st EXCEPT !.limit = f.int])

\* A bug the clamp could have: the upper bound is not applied.
ClampNoUpper(n) == IF n < MinLimit THEN MinLimit ELSE n

\* Lines 79-84.
Clamp(n) ==
    LET lo == IF n < MinLimit THEN MinLimit ELSE n
    IN IF lo > MaxLimit THEN MaxLimit ELSE lo

UsageText == "Usage: github-activity [options] <github-username> ..."

\* fmt's %q of a string of plain ASCII.
Quote(str) == "\"" \o str \o "\""

NoActivityMsg == "No recent public activity."
NoPrintableMsg == "No printable events found."
NoTypeMsg(t) == "No events of type " \o Quote(t) \o " found."

(***************************************************************************)
(* The inputs: feeds, responses and command lines.                         *)
(***************************************************************************)
Ev(type, repo, payload) == [Type |-> type, Repo |-> [Name |-> repo], Payload |-> payload]

B_opened == <<"o","p","e","n","e","d">>
B_CLOSED == <<"C","L","O","S","E","D">>
B_edited == <<"<C3>","<A9>","d","i","t">>          \* e-acute, d, i, t
B_Bug == <<"B","u","g">>
B_fork == <<"b","o","b","/","f","o","r","k">>
B_x == <<"x">>

SupportedTypes == {"PushEvent", "IssuesEvent", "PullRequestEvent", "WatchEvent",
                   "ForkEvent", "CreateEvent", "DeleteEvent", "ReleaseEvent",
                   "PullRequestReviewCommentEvent", "IssueCommentEvent"}
PayloadTypes == {"PushEvent", "IssuesEvent", "PullRequestEvent", "WatchEvent", "ForkEvent"}
EventTypes == SupportedTypes \cup {"GollumEvent"}
RepoNames == {"alice/repo", "bob/lib"}

Actions == {JStr(B_opened), JStr(B_CLOSED), JStr(<<>>), JStr(B_edited), JNum(1), JAbsent}
NumTitles == {JObj([number |-> JNum(42), title |-> JStr(B_Bug)]),
              JObj([number |-> JStr(B_x), title |-> JStr(B_Bug)]),
              JObj([title |-> JNum(7)]),
              JNull, JNum(7)}

Payloads ==
    {JAbsent, JNull, JArr, JNum(5), JObj([other |-> JNull])}
    \cup {JObj([size |-> x]) : x \in {JNum(0), JNum(3), JNum(-2), JNum(12), JStr(B_x), JFrac, JNull}}
    \cup {JObj([action |-> a, issue |-> i]) : a \in Actions, i \in NumTitles}
    \cup {JObj([action |-> a, pull_request |-> i]) : a \in Actions, i \in NumTitles}
    \cup {JObj([action |-> a]) :
            a \in {JStr(started), JStr(ToUpper(started)), JStr(titleCase(started)),
                   JStr(B_opened), JStr(<<>>), JNum(1)}}
    \cup {JObj([forkee |-> f]) :
            f \in {JObj([full_name |-> JStr(B_fork)]), JObj([full_name |-> JStr(<<>>)]),
                   JObj([full_name |-> JNum(1)]), JObj([other |-> JNull]), JNull, JStr(B_x)}}

AllEvents == {Ev(t, r, p) : t \in EventTypes, r \in RepoNames, p \in Payloads}

\* The events the feeds of several events are made of.
PushOK == Ev("PushEvent", "alice/repo", JObj([size |-> JNum(3)]))
PushBad == Ev("PushEvent", "alice/repo", JObj([size |-> JStr(B_x)]))
CreateOK == Ev("CreateEvent", "bob/lib", JObj([other |-> JNull]))
Gollum == Ev("GollumEvent", "alice/repo", JObj([other |-> JNull]))
WatchOK == Ev("WatchEvent", "bob/lib", JObj([action |-> JStr(started)]))
CoreEvents == {PushOK, PushBad, CreateOK, Gollum, WatchOK}

SeqsUpTo(S, n) == UNION {[1..m -> S] : m \in 0..n}

\* One feed longer than the largest limit.
LongFeed == [i \in 1..(MaxLimit + 1) |-> IF i % 2 = 0 THEN PushOK ELSE CreateOK]

Rep(c, n) == [i \in 1..n |-> c]
B_gateway == <<"b","a","d"," ","g","a","t","e","w","a","y","\n">>

TextBodies ==
    {<<>>, B_gateway, <<" ", "\n">>,
     Rep("a", BodyLimit), Rep("a", BodyLimit + 1),
     <<" ">> \o Rep("a", BodyLimit),
     Rep("a", BodyLimit - 1) \o <<" ", "b">>}

StatusText(code) ==
    CASE code = 200 -> "OK"
      [] code = 204 -> "No Content"
      [] code = 301 -> "Moved Permanently"
      [] code = 403 -> "Forbidden"
      [] code = 404 -> "Not Found"
      [] code = 500 -> "Internal Server Error"
      [] code = 502 -> "Bad Gateway"
      [] OTHER -> "status code " \o Itoa(code)

Resp(code, remaining, reset, body) ==
    [transport |-> "ok", StatusCode |-> code, Status |-> Itoa(code) \o " " \o StatusText(code),
     remaining |-> remaining, reset |-> reset, body |-> body]
TextBody(bytes) == [k |-> "text", bytes |-> bytes]
ArrayBody(evs) == [k |-> "array", events |-> evs]
Doc(kind) == [k |-> kind]

B_1710000000 == <<"1","7","1","0","0","0","0","0","0","0">>
B_yearOne == <<"-","6","2","1","3","5","5","9","6","8","0","0">>
B_tooBig == <<"9","9","9","9","9","9","9","9","9","9","9","9","9","9","9","9","9","9","9","9">>
B_maxInt == <<"9","2","2","3","3","7","2","0","3","6","8","5","4","7","7","5","8","0","7">>

Resets == {<<>>, B_1710000000, B_yearOne, B_tooBig, B_maxInt, <<"0">>, <<"+","5">>,
           <<"-","7">>, <<"0","0","7">>, <<"-">>, <<"1","2","a">>, <<"1",".","5">>,
           <<" ","5">>, <<"1","_","0">>}
Remainings == {"", "0", "1", "00"}

FailStatuses == {199, 300, 301, 400, 500, 502}
OkStatuses == {200, 204, 299}

TransportFail == [transport |-> "fail", cause |-> "dial tcp: connection refused"]

\* The answers that carry a feed.
FeedEnvs ==
    {Resp(200, r, <<>>, ArrayBody(f)) : r \in {"", "0"}, f \in SeqsUpTo(CoreEvents, MaxEvents)}
    \cup {Resp(200, "1", <<>>, ArrayBody(LongFeed))}

\* The answers with one event of every type and payload.
OneEventEnvs == {Resp(200, "1", <<>>, ArrayBody(<<e>>)) : e \in AllEvents}

\* Every other answer.
OtherEnvs ==
    {TransportFail}
    \cup {Resp(c, "1", <<>>, Doc(d)) :
            c \in OkStatuses, d \in {"eof", "syntax", "null", "object", "illtyped"}}
    \cup {Resp(StatusNotFound, r, t, TextBody(B_gateway)) :
            r \in Remainings, t \in {<<>>, B_1710000000}}
    \cup {Resp(StatusForbidden, r, t, TextBody(B_gateway)) : r \in Remainings, t \in Resets}
    \cup {Resp(c, r, <<>>, TextBody(b)) : c \in FailStatuses, r \in {"", "0"}, b \in TextBodies}
    \cup {Resp(StatusForbidden, "1", <<>>, TextBody(b)) : b \in TextBodies}

U_ok == <<"o","k">>
U_escaped == <<"a","%","2","0","b">>
U_percent == <<"5","0","%">>
U_newline == <<"a","\n">>

Filters == {"", "PushEvent", "GollumEvent", "WatchEvent"}
Limits == {-1, 0, 2, 150}

\* Command lines of the documented form: flags, then the username.
FlagLines ==
    {t \o n \o <<Arg(U_ok)>> :
        t \in {<<>>} \cup {<<TypeFlag(f)>> : f \in Filters},
        n \in {<<>>} \cup {<<NFlag(v)>> : v \in Limits}}

\* Every other command line.
OtherLines ==
    {<<>>, <<HelpFlag>>, <<Arg(U_ok), Arg(U_ok)>>, <<Arg(U_ok), NFlag(2)>>,
     <<NFlag(2), TypeFlag("PushEvent"), Arg(U_ok)>>, <<NFlag(2), NFlag(150), Arg(U_ok)>>,
     <<EventFlag("PushEvent"), Arg(U_ok)>>, <<NFlag(2), EventFlag("PushEvent"), Arg(U_ok)>>,
     <<Arg(U_escaped)>>, <<Arg(U_percent)>>, <<Arg(U_newline)>>}

Runs ==
    (FlagLines \X FeedEnvs)
    \cup ({<<Arg(U_ok)>>, <<TypeFlag("IssuesEvent"), Arg(U_ok)>>} \X OneEventEnvs)
    \cup ({<<Arg(U_ok)>>, <<TypeFlag("PushEvent"), NFlag(2), Arg(U_ok)>>} \X OtherEnvs)
    \cup (OtherLines \X {Resp(200, "", <<>>, ArrayBody(<<PushOK, PushBad, CreateOK>>)),
                         Resp(StatusNotFound, "", <<>>, TextBody(B_gateway)),
                         TransportFail})

(***************************************************************************)
(* main.                                                                   *)
(***************************************************************************)
Init ==
    /\ \E run \in Runs : argv = run[1] /\ env = run[2]
    /\ pc = "parse"
    /\ eventType = ""
    /\ limit = DefaultLimit
    /\ username = <<>>
    /\ events = <<>>
    /\ idx = 0
    /\ line = ""
    /\ ok = FALSE
    /\ count = 0
    /\ stdout = <<>>
    /\ stderr = <<>>
    /\ exitCode = -1
    /\ requests = 0

Exit(code) == pc' = "done" /\ exitCode' = code

\* Lines 72-84: flag.Parse, the check of the argument count, the clamp.
Parse ==
    /\ pc = "parse"
    /\ LET r == ParseFlags(argv, [eventType |-> "", limit |-> DefaultLimit]) IN
       CASE r.result = "help" ->
                /\ stderr' = Append(stderr, UsageText)
                /\ Exit(0)
                /\ UNCHANGED <<eventType, limit, username>>
         [] r.result = "undefined" ->
                /\ stderr' = stderr \o <<"flag provided but not defined: -" \o r.name, UsageText>>
                /\ Exit(ExitUsage)
                /\ UNCHANGED <<eventType, limit, username>>
         [] r.result = "ok" /\ Len(r.rest) # 1 ->
                /\ stderr' = Append(stderr, UsageText)
                /\ Exit(ExitUsage)
                /\ eventType' = r.eventType
                /\ limit' = r.limit
                /\ UNCHANGED username
         [] OTHER ->
                /\ eventType' = r.eventType
                /\ limit' = Clamp(r.limit)
                /\ username' = r.rest[1].user
                /\ pc' = "fetch"
                /\ UNCHANGED <<stderr, exitCode>>
    /\ UNCHANGED <<argv, env, events, idx, line, ok, count, stdout, requests>>

\* A bug main could have: the error is reported and the run goes on.
FetchNoExit ==
    /\ pc = "fetch"
    /\ LET r == fetchEvents(username, env) IN
       /\ requests' = requests + r.sent
       /\ stderr' = IF r.failed THEN Append(stderr, "Error: " \o r.msg) ELSE stderr
       /\ events' = r.events
       /\ pc' = "empty"
    /\ UNCHANGED <<argv, env, eventType, limit, username, idx, line, ok, count, stdout,
                   exitCode>>

\* Lines 86-90.
Fetch ==
    /\ pc = "fetch"
    /\ LET r == fetchEvents(username, env) IN
       /\ requests' = requests + r.sent
       /\ IF r.failed
          THEN /\ stderr' = Append(stderr, "Error: " \o r.msg)
               /\ Exit(ExitFailure)
               /\ UNCHANGED events
          ELSE /\ events' = r.events
               /\ pc' = "empty"
               /\ UNCHANGED <<stderr, exitCode>>
    /\ UNCHANGED <<argv, env, eventType, limit, username, idx, line, ok, count, stdout>>

\* A bug main could have: no return after the message for an empty feed.
EmptyCheckNoReturn ==
    /\ pc = "empty"
    /\ stdout' = IF Len(events) = 0 THEN Append(stdout, NoActivityMsg) ELSE stdout
    /\ pc' = "range"
    /\ count' = 0
    /\ UNCHANGED <<argv, env, eventType, limit, username, events, idx, line, ok,
                   stderr, exitCode, requests>>

\* Lines 91-96.
EmptyCheck ==
    /\ pc = "empty"
    /\ IF Len(events) = 0
       THEN /\ stdout' = Append(stdout, NoActivityMsg)
            /\ Exit(0)
       ELSE /\ pc' = "range"
            /\ UNCHANGED <<stdout, exitCode>>
    /\ count' = 0
    /\ UNCHANGED <<argv, env, eventType, limit, username, events, idx, line, ok,
                   stderr, requests>>

\* Line 97: the range loop takes the next event, or ends.
Range ==
    /\ pc = "range"
    /\ IF idx < Len(events)
       THEN idx' = idx + 1 /\ pc' = "filter"
       ELSE idx' = idx /\ pc' = "summary"
    /\ UNCHANGED <<argv, env, eventType, limit, username, events, line, ok, count,
                   stdout, stderr, exitCode, requests>>

\* Line 98.
FilteredOut(ev, filter) == filter # "" /\ ev.Type # filter

\* Lines 98-100.
Filter ==
    /\ pc = "filter"
    /\ pc' = IF FilteredOut(events[idx], eventType) THEN "range" ELSE "format"
    /\ UNCHANGED <<argv, env, eventType, limit, username, events, idx, line, ok, count,
                   stdout, stderr, exitCode, requests>>

\* Line 101.
Format ==
    /\ pc = "format"
    /\ line' = formatEvent(events[idx]).line
    /\ ok' = formatEvent(events[idx]).ok
    /\ pc' = "emit"
    /\ UNCHANGED <<argv, env, eventType, limit, username, events, idx, count,
                   stdout, stderr, exitCode, requests>>

\* A bug the loop could have: it stops one event late.
LoopDoneLate(n, lim) == n > lim

\* Line 107.
LoopDone(n, lim) == n >= lim

\* Lines 102-109.
Emit ==
    /\ pc = "emit"
    /\ IF ~ok
       THEN /\ pc' = "range"
            /\ UNCHANGED <<stdout, count>>
       ELSE /\ stdout' = Append(stdout, "- " \o line)
            /\ count' = count + 1
            /\ pc' = IF LoopDone(count + 1, limit) THEN "summary" ELSE "range"
    /\ UNCHANGED <<argv, env, eventType, limit, username, events, idx, line, ok,
                   stderr, exitCode, requests>>

\* A bug main could have: the message does not depend on count.
SummaryNoCountCheck ==
    /\ pc = "summary"
    /\ stdout' = IF eventType # "" THEN Append(stdout, NoTypeMsg(eventType))
                 ELSE Append(stdout, NoPrintableMsg)
    /\ Exit(0)
    /\ UNCHANGED <<argv, env, eventType, limit, username, events, idx, line, ok, count,
                   stderr, requests>>

\* Lines 112-119.
Summary ==
    /\ pc = "summary"
    /\ stdout' = IF count # 0 THEN stdout
                 ELSE IF eventType # "" THEN Append(stdout, NoTypeMsg(eventType))
                 ELSE Append(stdout, NoPrintableMsg)
    /\ Exit(0)
    /\ UNCHANGED <<argv, env, eventType, limit, username, events, idx, line, ok, count,
                   stderr, requests>>

Next == Parse \/ Fetch \/ EmptyCheck \/ Range \/ Filter \/ Format \/ Emit \/ Summary

Spec == Init /\ [][Next]_vars

(***************************************************************************)
(* What the properties are stated in: the inputs as the user and the       *)
(* network gave them, and the output read back line by line.               *)
(***************************************************************************)
MinOf(a, b) == IF a < b THEN a ELSE b
MaxOf(a, b) == IF a > b THEN a ELSE b

\* The positions of the flags package flag reads, and the last value given
\* for a flag.
FlagPositions(name) ==
    {i \in 1..Len(argv) :
        /\ \A j \in 1..i : argv[j].k = "flag"
        /\ argv[i].name = name}
LastPosition(S) == CHOOSE i \in S : \A j \in S : j <= i
UserFilter == IF FlagPositions("type") = {} THEN ""
              ELSE argv[LastPosition(FlagPositions("type"))].str
UserN == IF FlagPositions("n") = {} THEN DefaultLimit
         ELSE argv[LastPosition(FlagPositions("n"))].int
ClampedLimit == MaxOf(1, MinOf(100, UserN))

InfoMessages ==
    {NoActivityMsg, NoPrintableMsg} \cup {NoTypeMsg(t) : t \in EventTypes}
IsInfo(l) == l \in InfoMessages
IsEventLine(l) == l \notin InfoMessages
EventLines == SelectSeq(stdout, IsEventLine)
InfoLines == SelectSeq(stdout, IsInfo)

Matches(e) == UserFilter = "" \/ e.Type = UserFilter
Qualifies(e) == Matches(e) /\ formatEvent(e).ok
QualifyingLines ==
    LET q == SelectSeq(events, Qualifies)
    IN [i \in 1..Len(q) |-> "- " \o formatEvent(q[i]).line]

\* The run got past flag parsing and called fetchEvents, which returned.
FetchReturned == pc \notin {"parse", "fetch"} /\ username # <<>>
GotResponse == FetchReturned /\ requests = 1 /\ env.transport = "ok"
FetchSucceeded ==
    /\ GotResponse
    /\ env.StatusCode \in 200..299
    /\ env.body.k \in {"array", "null"}
Done == pc = "done"

\* C1: the number of event lines printed is at most the clamped limit
\* max(1, min(100, n)) and at most the number of events that match the
\* filter and are formattable, whatever n the user gave.
C1_PrintedAtMostLimitAndQualifying ==
    /\ Len(EventLines) <= ClampedLimit
    /\ Len(EventLines) <= Cardinality({i \in 1..Len(events) : Qualifies(events[i])})

\* A run with --n above 100 over a feed of more than 100 qualifying events
\* ended with exactly 100 lines.
C1_Witness ==
    /\ Done
    /\ UserN > MaxLimit
    /\ Len(events) > MaxLimit
    /\ Len(EventLines) = MaxLimit

\* C2: the printed event lines are, in feed order, the formatted lines of
\* the first min(L, m) events that match the filter and are formattable; at
\* every moment they are a prefix of those lines, and a finished run has
\* printed exactly min(L, m) of them.
C2_PrintedIsPrefixOfQualifying ==
    LET q == QualifyingLines
        n == Len(EventLines)
    IN /\ n <= Len(q)
       /\ EventLines = SubSeq(q, 1, n)
       /\ (Done /\ FetchSucceeded) => n = MinOf(ClampedLimit, Len(q))

\* A finished run with limit 1 whose first event did not qualify and that
\* had two or more qualifying events after it.
C2_Witness ==
    /\ Done
    /\ FetchSucceeded
    /\ ClampedLimit = 1
    /\ Len(events) >= 3
    /\ ~Qualifies(events[1])
    /\ Len(QualifyingLines) >= 2
    /\ Len(EventLines) = 1

\* The message of the generic failure for a response: the status line and
\* the first 512 bytes of the body between their first and last byte that
\* is no white space.
GenericMessage(resp) ==
    LET head == SubSeq(resp.body.bytes, 1, MinOf(512, Len(resp.body.bytes)))
        solid == {i \in 1..Len(head) : head[i] \notin Spaces}
        lo == CHOOSE i \in solid : \A j \in solid : i <= j
        hi == CHOOSE i \in solid : \A j \in solid : j <= i
        shown == IF solid = {} THEN <<>> ELSE SubSeq(head, lo, hi)
    IN "Error: github api error: " \o resp.Status \o ": " \o Text(shown)

RateMessages ==
    {"Error: " \o RateLimitMsg}
    \cup {"Error: " \o RateLimitMsg \o " (resets at " \o FormatRFC1123(parseUnix(t).ts) \o ")" :
            t \in Resets}
GenericMessages ==
    {GenericMessage(Resp(c, "", <<>>, TextBody(b))) :
        c \in FailStatuses \cup {StatusForbidden}, b \in TextBodies}
DecodeMessages ==
    {"Error: decode failed: " \o DecodeError(Doc(d)) : d \in {"eof", "syntax", "object", "illtyped"}}

\* C3: a received response is classified by checks in a fixed order: 404 is
\* "user not found" whatever the headers; else 403 with remaining quota "0"
\* is "rate limit exceeded"; else a status outside 200..299 is the generic
\* failure with the status line and at most 512 trimmed bytes of body; else
\* the body is decoded, and a body that does not decode is a "decode failed"
\* failure that is none of the other three.
C3_ResponseClassification ==
    GotResponse =>
        CASE env.StatusCode = 404 ->
                stderr = <<"Error: user not found">> /\ exitCode = ExitFailure
          [] env.StatusCode = 403 /\ env.remaining = "0" ->
                /\ Len(stderr) = 1 /\ stderr[1] \in RateMessages
                /\ exitCode = ExitFailure
          [] env.StatusCode < 200 \/ env.StatusCode > 299 ->
                /\ stderr = <<GenericMessage(env)>>
                /\ stderr[1] \notin RateMessages \cup DecodeMessages \cup {"Error: user not found"}
                /\ exitCode = ExitFailure
          [] env.body.k \notin {"array", "null"} ->
                /\ Len(stderr) = 1 /\ stderr[1] \in DecodeMessages
                /\ stderr[1] \notin RateMessages \cup GenericMessages \cup {"Error: user not found"}
                /\ exitCode = ExitFailure
          [] OTHER -> stderr = <<>> /\ exitCode # ExitFailure

\* A 403 whose remaining-quota header is not "0" ended as the generic
\* failure, with a body longer than 512 bytes cut.
C3_Witness ==
    /\ Done
    /\ GotResponse
    /\ env.StatusCode = 403
    /\ env.remaining = "1"
    /\ Len(env.body.bytes) > 512
    /\ stderr = <<GenericMessage(env)>>

\* C4: for a 403 with zero remaining quota the message has the resets-at
\* annotation exactly when the reset header is present and parses as a
\* decimal integer, and the annotation is that of the parsed value.
C4_AnnotationIffResetParses ==
    (GotResponse /\ env.StatusCode = 403 /\ env.remaining = "0") =>
        LET parsed == ParseInt(env.reset) IN
        IF env.reset # <<>> /\ ~parsed.err
        THEN stderr = <<"Error: " \o RateLimitMsg \o " (resets at "
                        \o FormatRFC1123(Unix(parsed.val)) \o ")">>
        ELSE stderr = <<"Error: " \o RateLimitMsg>>

\* What the claim calls a fetch-level failure.
FetchFailure ==
    \/ NewRequestFails(username)
    \/ env.transport = "fail"
    \/ env.StatusCode \notin 200..299
    \/ env.body.k \notin {"array", "null"}

\* C5: every fetch-level failure aborts the run with one message on the
\* error stream, nothing on standard output, a nonzero exit code that is
\* not the usage code, and at most one request; a run whose fetch succeeds
\* exits 0; no run sends a second request.
C5_FetchFailureAborts ==
    /\ requests <= 1
    /\ (FetchReturned /\ FetchFailure) =>
            /\ Done
            /\ Len(stderr) = 1
            /\ stdout = <<>>
            /\ exitCode \notin {0, ExitUsage}
    /\ (FetchReturned /\ ~FetchFailure) =>
            /\ requests = 1
            /\ stderr = <<>>
            /\ Done => exitCode = 0

\* A response that did not decode aborted the run.
C5_Witness ==
    /\ Done
    /\ GotResponse
    /\ env.StatusCode = 200
    /\ env.body.k = "illtyped"
    /\ exitCode = ExitFailure

\* C6: a finished run whose fetch succeeded printed exactly one
\* informational message if it printed no event line and none otherwise;
\* the message is "No recent public activity." iff the feed is empty, else
\* "No events of type X found." iff a filter was set, else "No printable
\* events found.".
C6_OneInformationalMessage ==
    (Done /\ FetchSucceeded) =>
        /\ exitCode = 0
        /\ IF EventLines # <<>> THEN InfoLines = <<>>
           ELSE IF Len(events) = 0 THEN InfoLines = <<NoActivityMsg>>
           ELSE IF UserFilter # "" THEN InfoLines = <<NoTypeMsg(UserFilter)>>
           ELSE InfoLines = <<NoPrintableMsg>>

\* An empty feed under a filter: only the no-activity message.
C6_Witness ==
    /\ Done
    /\ FetchSucceeded
    /\ UserFilter # ""
    /\ Len(events) = 0
    /\ stdout = <<NoActivityMsg>>

\* The first character upper, the rest lower, by characters.
TitleCased(s) ==
    IF s = <<>> THEN <<>>
    ELSE LET w == MaxOf(1, RuneWidth(s))
         IN MapCase(TRUE, SubSeq(s, 1, w)) \o MapCase(FALSE, Drop(s, w))

EqualsIgnoringCase(a, b) == MapCase(FALSE, a) = MapCase(FALSE, b)

\* The tag table, for an event whose payload decoded.
TableLine(ev) ==
    LET repo == ev.Repo.Name
        raw == ev.Payload
    IN CASE ev.Type = "PushEvent" ->
              "Pushed " \o Itoa(UnmarshalPush(raw).Size) \o " commit(s) to " \o repo
         [] ev.Type = "IssuesEvent" ->
              LET p == UnmarshalIssues(raw) IN
              Text(TitleCased(p.Action)) \o " an issue #" \o Itoa(p.Number) \o " "
              \o LDQUO \o Text(p.Title) \o RDQUO \o " in " \o repo
         [] ev.Type = "PullRequestEvent" ->
              LET p == UnmarshalPR(raw) IN
              Text(TitleCased(p.Action)) \o " a pull request #" \o Itoa(p.Number) \o " "
              \o LDQUO \o Text(p.Title) \o RDQUO \o " in " \o repo
         [] ev.Type = "WatchEvent" ->
              IF EqualsIgnoringCase(UnmarshalWatch(raw).Action, started)
              THEN "Starred " \o repo ELSE "Watch event on " \o repo
         [] ev.Type = "ForkEvent" ->
              LET full == UnmarshalFork(raw).FullName IN
              "Forked " \o repo \o " " \o RARR \o " "
              \o (IF full # <<>> THEN Text(full) ELSE repo)
         [] ev.Type = "CreateEvent" -> "Created something in " \o repo
         [] ev.Type = "DeleteEvent" -> "Deleted something in " \o repo
         [] ev.Type = "ReleaseEvent" -> "Published or edited a release in " \o repo
         [] ev.Type = "PullRequestReviewCommentEvent" -> "Commented on a PR review in " \o repo
         [] OTHER -> "Commented on an issue in " \o repo

IsIntValue(v) == v.k \in {"absent", "null"} \/ (v.k = "num" /\ v.int)
IsStrValue(v) == v.k \in {"absent", "null", "str"}
IsNumTitle(v) ==
    \/ v.k \in {"absent", "null"}
    \/ v.k = "obj" /\ IsIntValue(Field(v, "number")) /\ IsStrValue(Field(v, "title"))
IsForkee(v) ==
    \/ v.k \in {"absent", "null"}
    \/ v.k = "obj" /\ IsStrValue(Field(v, "full_name"))

\* The payload decodes into the shape of the tag.
PayloadDecodes(type, raw) ==
    \/ raw.k = "null"
    \/ /\ raw.k = "obj"
       /\ CASE type = "PushEvent" -> IsIntValue(Field(raw, "size"))
            [] type = "IssuesEvent" ->
                 IsStrValue(Field(raw, "action")) /\ IsNumTitle(Field(raw, "issue"))
            [] type = "PullRequestEvent" ->
                 IsStrValue(Field(raw, "action")) /\ IsNumTitle(Field(raw, "pull_request"))
            [] type = "WatchEvent" -> IsStrValue(Field(raw, "action"))
            [] type = "ForkEvent" -> IsForkee(Field(raw, "forkee"))
            [] OTHER -> TRUE

\* C7: for every supported tag, repo name and decodable payload the line
\* formatEvent returns is the line of the tag table, with ok = true.
C7_FormatAgreesWithTable ==
    LET ev == events[idx] IN
    (pc = "emit" /\ ev.Type \in SupportedTypes
        /\ (ev.Type \in PayloadTypes => PayloadDecodes(ev.Type, ev.Payload)))
    => (ok /\ line = TableLine(ev))

\* What formatEvent skips: a tag outside the ten, or a payload-bearing tag
\* whose payload does not decode.
Skipped(ev) ==
    \/ ev.Type \notin SupportedTypes
    \/ ev.Type \in PayloadTypes /\ ~PayloadDecodes(ev.Type, ev.Payload)

C8_SkipCases ==
    /\ pc = "emit" =>
            /\ ~ok <=> Skipped(events[idx])
            /\ ~ok => line = ""
    /\ (Done /\ FetchSucceeded) =>
            LET kept == SelectSeq(events, LAMBDA e : ~Skipped(e) /\ Matches(e))
                shown == [i \in 1..MinOf(ClampedLimit, Len(kept)) |-> "- " \o formatEvent(kept[i]).line]
            IN EventLines = shown

C8_SkipIsSilent ==
    (pc = "emit" /\ ~ok) =>
        /\ stdout' = stdout
        /\ stderr' = stderr
        /\ count' = count
        /\ exitCode' = exitCode
        /\ pc' = "range"

\* C8: formatEvent returns ("", false) exactly for a tag outside the ten
\* supported ones and for a payload-bearing tag whose payload does not
\* decode; the five payload-free tags are shown whatever the payload; in
\* the loop a skipped event writes nothing, ends nothing and leaves the
\* count alone, and the events after it are printed as if it were absent.
C8_SkipExactlyAndSilently == [] C8_SkipCases /\ [][C8_SkipIsSilent]_vars

\* A watch event whose payload did not decode was skipped and the run went
\* on to its end.
C8_Witness ==
    /\ Done
    /\ FetchSucceeded
    /\ Len(events) = 1
    /\ events[1].Type = "WatchEvent"
    /\ ~PayloadDecodes("WatchEvent", events[1].Payload)
    /\ stdout = <<NoPrintableMsg>>

\* C9: the command line of the README, --event=<EventType> <username>,
\* fetches the user's events and prints only event lines of that type.
C9_EventFlagFilters ==
    (Done /\ Len(argv) = 2 /\ argv[1] = EventFlag("PushEvent") /\ argv[2].k = "arg") =>
        /\ requests = 1
        /\ exitCode # ExitUsage
        /\ \A i \in 1..Len(EventLines) :
              \E j \in 1..Len(events) :
                 /\ events[j].Type = "PushEvent"
                 /\ EventLines[i] = "- " \o formatEvent(events[j]).line

NoTypeMsgPrinted ==
    eventType # "" /\ \E i \in 1..Len(stdout) : stdout[i] = NoTypeMsg(eventType)

\* C10 as claimed: when "No events of type X found." is printed the feed
\* holds no event of type X.
C10_NoTypeMsgMeansNoEventOfType ==
    NoTypeMsgPrinted => \A i \in 1..Len(events) : events[i].Type # eventType

\* C10: when "No events of type X found." is printed the feed is not empty
\* and holds no event of type X that formatEvent formats.
C10_NoTypeMsgMeansNoneFormattable ==
    NoTypeMsgPrinted =>
        /\ Len(events) > 0
        /\ \A i \in 1..Len(events) :
              events[i].Type = eventType => ~formatEvent(events[i]).ok

\* The message was printed for a feed that holds an event of type X.
C10_Witness ==
    /\ NoTypeMsgPrinted
    /\ \E i \in 1..Len(events) : events[i].Type = eventType
====
